---- MODULE Spec2Model ----
(***************************************************************************)
(* LeCroy T3DSO1204 oscilloscope driver (pymeasure).                       *)
(*                                                                         *)
(* The driver translates attribute reads and writes into SCPI-like         *)
(* commands.  The model keeps the instrument as a register file, the       *)
(* driver's own attributes, and a record of the last driver operation:     *)
(* what it returned or raised and which commands it transmitted.           *)
(*                                                                         *)
(* Encoding of Python values:                                              *)
(*   None            <<>>        a value v that may be None   <<v>>        *)
(*   True / False    "True" / "False"                                      *)
(*   the int n used as a source   "#n"   (a str source is the string)      *)
(*   a string the code parses     a sequence of one-character strings      *)
(*   instrument times          integers, in nanoseconds                    *)
(*   the driver's clock        integers, in milliseconds                   *)
(***************************************************************************)
EXTENDS Integers, Sequences, FiniteSets, TLC

VARIABLES
    inst,             \* the instrument's registers, by command header
    waveform_source,  \* the driver's selected waveform source
    last,             \* the driver operation just made, and its outcome
    nchg,             \* register changes, or property accesses, made so far
    clock,            \* monotonic time, in milliseconds
    last_write,       \* the driver's note of when it last transmitted, or None
    gap               \* the last transmission: when issued, waited, sent; or None

vars == <<inst, waveform_source, last, nchg, clock, last_write, gap>>

(***************************************************************************)
(* Bounds of the model.                                                    *)
(***************************************************************************)
MaxSize == 2      \* sample-size readings range over 1..MaxSize
MaxDepth == 3     \* nesting of acquisition_sample_size before Python gives up
MaxChanges == 2   \* register changes in one behaviour
MaxCalls == 2     \* property accesses in one behaviour
MaxClock == 24    \* no command is issued after this time
MaxOversleep == 1 \* how much longer than asked a sleep may last

None == <<>>
Some(v) == <<v>>

Channels == {"C1", "C2", "C3", "C4"}

(***************************************************************************)
(* Outcomes of a driver call: a value, or an exception; with the commands  *)
(* transmitted on the way, as the strings sent.                            *)
(***************************************************************************)
Ok(v, sent) == [kind |-> "ok", val |-> Some(v), sent |-> sent, eff |-> <<>>]
Raise(exc, sent) == [kind |-> exc, val |-> None, sent |-> sent, eff |-> <<>>]
\* A write: eff lists the registers the transmitted commands set.
Written(sent, eff) == [kind |-> "ok", val |-> None, sent |-> sent, eff |-> eff]

(***************************************************************************)
(* Strings as character sequences.                                         *)
(***************************************************************************)
Digits == {"0", "1", "2", "3", "4", "5", "6", "7", "8", "9"}
Letters == {"C", "c", "H", "h", "M", "m", "A", "a", "T", "t", "E", "Q", "N"}
\* \w of the regular expression
LettersOnlyMutant == Letters

WordChars == Digits \cup Letters \cup {"_"}
\* [+\-/*] of the regular expression
Operators == {"+", "-", "/", "*"}

RECURSIVE Join(_)
Join(cs) == IF cs = <<>> THEN "" ELSE Head(cs) \o Join(Tail(cs))

\* Length of the longest prefix of cs made of characters of the class.
RECURSIVE Run(_, _)
Run(cs, class) ==
    IF cs # <<>> /\ Head(cs) \in class THEN 1 + Run(Tail(cs), class) ELSE 0

Drop(cs, n) == SubSeq(cs, n + 1, Len(cs))

(***************************************************************************)
(* re.match(r"'(\w+)[+\-/*](\w+)'", math_define): None, or the two groups. *)
(* The match is anchored at the start only.  \w+ is greedy and the         *)
(* character after each group is not a word character, so each group is    *)
(* the whole run of word characters.                                       *)
(***************************************************************************)
MatchMathDefine(cs) ==
    IF cs = <<>> \/ Head(cs) # "'" THEN None
    ELSE LET r1 == Drop(cs, 1)
             n1 == Run(r1, WordChars)
             r2 == Drop(r1, n1)
         IN IF n1 = 0 \/ r2 = <<>> \/ Head(r2) \notin Operators THEN None
            ELSE LET r3 == Drop(r2, 1)
                     n2 == Run(r3, WordChars)
                     r4 == Drop(r3, n2)
                 IN IF n2 = 0 \/ r4 = <<>> \/ Head(r4) # "'" THEN None
                    ELSE Some(<<Join(SubSeq(r1, 1, n1)), Join(SubSeq(r3, 1, n2))>>)

(***************************************************************************)
(* Sources.  acquisition_sample_size takes a channel number or a channel   *)
(* name; waveform_source is whatever the caller selected.                  *)
(***************************************************************************)
IntSources == {"#1", "#2", "#3", "#4", "#5"}
IsStr(source) == source \notin IntSources

\* The tokens waveform_preamble accepts.
WaveformSources == {"C1", "C2", "C3", "C4", "MATH"}

\* str.upper() on the source strings of the model.
Upper(s) ==
    CASE s = "c1" -> "C1"
      [] s = "c2" -> "C2"
      [] s = "c3" -> "C3"
      [] s = "c4" -> "C4"
      [] s = "math" -> "MATH"
      [] OTHER -> s

\* sanitize_source: the canonical token of a source string, or ValueError.
sanitize_source(source) ==
    IF Upper(source) \in WaveformSources THEN Ok(Upper(source), <<>>)
    ELSE Raise("ValueError", <<>>)

\* strict_discrete_set(value, values)
strict_discrete_set(value, values) ==
    IF value \in values THEN Ok(value, <<>>) ELSE Raise("ValueError", <<>>)

(***************************************************************************)
(* The instrument: every query is answered from a register, named by the   *)
(* query.  The reply is already split at the commas and cast, as values()  *)
(* returns it.                                                             *)
(***************************************************************************)
Chars(c) == <<"C", c>>
Quote(a, op, b) == <<"'">> \o a \o <<op>> \o b \o <<"'">>

ChannelOperands == {Chars("1"), Chars("2"), Chars("3"), Chars("4")}

\* Definitions of the math channel with two channel operands.
TwoChannelDefs ==
    {Quote(a, "+", b) : a \in ChannelOperands, b \in ChannelOperands}
        \cup {Quote(Chars("1"), op, Chars("2")) : op \in Operators}
        \cup {Quote(Chars("4"), op, Chars("3")) : op \in Operators}

\* Other definitions the instrument can hold.
OtherDefs ==
    { Quote(<<"M", "A", "T", "H">>, "+", Chars("1")),
      Quote(Chars("2"), "*", <<"M", "A", "T", "H">>),
      Quote(Chars("5"), "+", Chars("1")),
      Quote(Chars("3"), "-", Chars("5")),
      Quote(<<"c", "2">>, "/", Chars("3")),
      <<"'", "F", "F", "T", "(", "C", "1", ")", "'">>,
      <<"C", "1", "+", "C", "2">> }

MathDefs == TwoChannelDefs \cup OtherDefs

Sizes == 1..MaxSize

\* The markers of a WFSU? reply and the orders the reply can list them in.
WfsuLayouts ==
    { <<"SP", "NP", "FP">>, <<"NP", "FP", "SP">>, <<"FP", "SP", "NP">>,
      <<"SP", "NP", "FP", "SN">>, <<"SN", "NP", "SP", "FP">> }

\* A token of a reply that mixes names and numbers.
Name(s) == [str |-> s]
Number(n) == [num |-> n]

RECURSIVE WfsuReply(_, _)
WfsuReply(reg, layout) ==
    IF layout = <<>> THEN <<>>
    ELSE <<Name(Head(layout)), Number(reg["WFSU " \o Head(layout)][1])>>
             \o WfsuReply(reg, Tail(layout))

\* The reply to a query: the register, but WFSU? lists its markers with
\* their values and ACQW? adds the average count in average mode.
Reply(reg, query) ==
    CASE query = "WFSU?" -> WfsuReply(reg, reg["WFSU layout"])
      [] query = "ACQW?" ->
            IF reg["ACQW?"] = <<"AVERAGE">> THEN <<"AVERAGE", reg["AVGA?"][1]>>
            ELSE reg["ACQW?"]
      [] OTHER -> reg[query]

\* Instrument.measurement: transmit the query, return the reply.
Measurement(reg, query) ==
    LET vals == Reply(reg, query)
    IN Ok(IF Len(vals) = 1 THEN vals[1] ELSE vals, <<query>>)

(***************************************************************************)
(* Acquisition sample size.                                                *)
(***************************************************************************)
acquisition_sample_size_c1(reg) == Measurement(reg, "SANU? C1")

QueryC2Mutant(reg) == Measurement(reg, "SANU? C2")

acquisition_sample_size_c2(reg) == Measurement(reg, "SANU? C1")

QueryC1ForC3Mutant(reg) == Measurement(reg, "SANU? C1")

acquisition_sample_size_c3(reg) == Measurement(reg, "SANU? C3")

acquisition_sample_size_c4(reg) == Measurement(reg, "SANU? C3")

\* math_define: the reply to DEF?, a list whose element 1 is the definition.
math_define(reg) == Measurement(reg, "DEF?")

Min(a, b) == IF a <= b THEN a ELSE b

Max(a, b) == IF a >= b THEN a ELSE b

LargerOfMutant(a, b) == Max(a, b)

\* return min(first, second), both already evaluated
SmallerOf(a, b) == Min(a, b)

\* A call that raised after the caller had already sent some commands.
After(sent, r) == [r EXCEPT !.sent = sent \o r.sent]

(***************************************************************************)
(* acquisition_sample_size(source).  depth counts the nested calls: Python *)
(* raises RecursionError when the nesting exceeds its limit, for which     *)
(* MaxDepth stands.  min(f(a), f(b)) evaluates f(a), then f(b).            *)
(***************************************************************************)
RECURSIVE acquisition_sample_size(_, _, _)
acquisition_sample_size(reg, source, depth) ==
    IF depth > MaxDepth THEN Raise("RecursionError", <<>>)
    ELSE
    LET s == IF IsStr(source) THEN sanitize_source(source) ELSE Ok(source, <<>>)
    IN  IF s.kind # "ok" THEN s
        ELSE LET src == s.val[1] IN
        CASE src \in {"#1", "C1"} -> acquisition_sample_size_c1(reg)
          [] src \in {"#2", "C2"} -> acquisition_sample_size_c2(reg)
          [] src \in {"#3", "C3"} -> acquisition_sample_size_c3(reg)
          [] src \in {"#4", "C4"} -> acquisition_sample_size_c4(reg)
          [] src = "MATH" ->
                LET md == math_define(reg)
                    match == MatchMathDefine(md.val[1][2])
                IN  IF match = None THEN Raise("AttributeError", md.sent)
                    ELSE
                    LET a == After(md.sent,
                                   acquisition_sample_size(reg, match[1][1], depth + 1))
                    IN  IF a.kind # "ok" THEN a
                        ELSE
                        LET b == After(a.sent,
                                       acquisition_sample_size(reg, match[1][2], depth + 1))
                        IN  IF b.kind # "ok" THEN b
                            ELSE Ok(SmallerOf(a.val[1], b.val[1]), b.sent)
          [] OTHER -> Raise("ValueError", <<>>)


(***************************************************************************)
(* "%.2E" of a number.  v counts units of 10^-unit (nanoseconds: unit 9).  *)
(* Three significant digits are kept.  Python rounds the binary value, so  *)
(* a decimal tie may fall either way; the values the model writes have no  *)
(* tie, and ties are rounded to even here.                                 *)
(***************************************************************************)
Abs(v) == IF v < 0 THEN -v ELSE v

RECURSIVE Pow10(_)
Pow10(n) == IF n = 0 THEN 1 ELSE 10 * Pow10(n - 1)

RECURSIVE NumDigits(_)
NumDigits(a) == IF a < 10 THEN 1 ELSE 1 + NumDigits(a \div 10)

\* <<mantissa, exponent>>: |v| is about mantissa * 10^(exponent - 2) units.
Sci3(a) ==
    IF a = 0 THEN <<0, 0>>
    ELSE LET d == NumDigits(a) IN
         IF d <= 3 THEN <<a * Pow10(3 - d), d - 1>>
         ELSE LET p == Pow10(d - 3)
                  q == a \div p
                  r == a % p
                  up == 2 * r > p \/ (2 * r = p /\ q % 2 = 1)
                  m == IF up THEN q + 1 ELSE q
              IN IF m = 1000 THEN <<100, d>> ELSE <<m, d - 1>>

\* The number the instrument reads from the formatted text.
Round3(v) ==
    LET me == Sci3(Abs(v))
        a == IF me[2] >= 2 THEN me[1] * Pow10(me[2] - 2)
             ELSE me[1] \div Pow10(2 - me[2])
    IN IF v < 0 THEN -a ELSE a

Pad2(n) == IF n < 10 THEN "0" \o ToString(n) ELSE ToString(n)

Fmt2E(v, unit) ==
    LET me == Sci3(Abs(v))
        e == IF me[1] = 0 THEN 0 ELSE me[2] - unit
    IN (IF v < 0 THEN "-" ELSE "") \o ToString(me[1] \div 100) \o "." \o Pad2(me[1] % 100)
           \o "E" \o (IF e < 0 THEN "-" ELSE "+") \o Pad2(Abs(e))

(***************************************************************************)
(* Validators.                                                             *)
(***************************************************************************)
strict_range(value, values) ==
    IF values[1] <= value /\ value <= values[2] THEN Ok(value, <<>>)
    ELSE Raise("ValueError", <<>>)

Validate(d, value) ==
    CASE d.validator = "strict_discrete_set" -> strict_discrete_set(value, d.values)
      [] d.validator = "strict_range" -> strict_range(value, d.values)
      [] OTHER -> Ok(value, <<>>)

(***************************************************************************)
(* Command descriptors: Instrument.control(get, set, validator, values,    *)
(* map_values).  values holds the allowed set (the keys of a mapping) or   *)
(* the <<low, high>> of a range; map holds the pairs <<value, token>> of a *)
(* mapping.                                                                *)
(***************************************************************************)
Control(get, set, fmt, validator, values, map) ==
    [get |-> get, set |-> set, fmt |-> fmt, validator |-> validator,
     values |-> values, map |-> map, map_values |-> map # {}]

Keys(map) == {p[1] : p \in map}

\* TeledyneOscilloscopeChannel._BOOLS
BOOLS == {<<"True", "ON">>, <<"False", "OFF">>}

ReadsInvertMutant ==
    Control("INVS?", "BWL", "%s", "strict_discrete_set", Keys(BOOLS), BOOLS)

bwlimit == Control("BWL?", "BWL", "%s", "strict_discrete_set", Keys(BOOLS), BOOLS)

invert == Control("INVS?", "INVS", "%s", "strict_discrete_set", Keys(BOOLS), BOOLS)

skew_factor == Control("SKEW?", "SKEW", "%.2ES", "strict_range", <<-100, 100>>, {})

UnvalidatedUnitMutant == Control("UNIT?", "UNIT", "%s", "none", {"A", "V"}, {})

unit == Control("UNIT?", "UNIT", "%s", "strict_discrete_set", {"A", "V"}, {})

timebase_hor_magnify ==
    Control("HMAG?", "HMAG", "%.2ES", "strict_range", <<1, 20000000>>, {})

timebase_hor_position == Control("HPOS?", "HPOS", "%.2ES", "none", {}, {})

ACQUISITION_TYPES ==
    {<<"normal", "SAMPLING">>, <<"peak", "PEAK_DETECT">>,
     <<"average", "AVERAGE">>, <<"highres", "HIGH_RES">>}

acquisition_type ==
    Control("ACQW?", "ACQW", "%s", "strict_discrete_set",
            Keys(ACQUISITION_TYPES), ACQUISITION_TYPES)

acquisition_average ==
    Control("AVGA?", "AVGA", "%d", "strict_discrete_set",
            {4, 16, 32, 64, 128, 256, 512, 1024}, {})

ACQUISITION_STATUS ==
    {<<"stopped", "Stop">>, <<"triggered", "Trig'd">>, <<"ready", "Ready">>,
     <<"auto", "Auto">>, <<"armed", "Arm">>}

acquisition_status ==
    Control("SAST?", "", "%s", "none", Keys(ACQUISITION_STATUS), ACQUISITION_STATUS)

MEMORY_SIZES ==
    {<<7000, "7K">>, <<70000, "70K">>, <<700000, "700K">>, <<7000000, "7M">>,
     <<14000, "14K">>, <<140000, "140K">>, <<1400000, "1.4M">>, <<14000000, "14M">>}

memory_size ==
    Control("MSIZ?", "MSIZ", "%s", "strict_discrete_set", Keys(MEMORY_SIZES), MEMORY_SIZES)

\* Controls of the base classes.
timebase_scale == Control("TDIV?", "TDIV", "%.2ES", "none", {}, {})

timebase_offset == Control("TRDL?", "TRDL", "%.2ES", "none", {}, {})

COUPLINGS == {<<"ac 1M", "A1M">>, <<"dc 1M", "D1M">>, <<"ground", "GND">>}

coupling == Control("CPL?", "CPL", "%s", "strict_discrete_set", Keys(COUPLINGS), COUPLINGS)

display == Control("TRA?", "TRA", "%s", "strict_discrete_set", Keys(BOOLS), BOOLS)

offset == Control("OFST?", "OFST", "%gV", "none", {}, {})

scale == Control("VDIV?", "VDIV", "%gV", "none", {}, {})

(***************************************************************************)
(* The property accessor.                                                  *)
(***************************************************************************)
\* The token a mapping gives for a value of its keys.
MapValue(map, value) == (CHOOSE p \in map : p[1] = value)[2]

\* The argument as transmitted.
Format(d, token) ==
    CASE d.fmt = "%s" -> token
      [] d.fmt = "%d" -> ToString(token)
      [] d.fmt = "%gV" -> ToString(token) \o "V"
      [] d.fmt = "%.2ES" -> Fmt2E(token, 9) \o "S"

\* What the instrument holds once it has read the argument.
Stored(d, token) == IF d.fmt = "%.2ES" THEN Round3(token) ELSE token

\* fset: validate, map, format, transmit.  prefix is "" or "C<n>:".  The
\* instrument answers the query <header>? with what <header> last set.
ControlSet(d, prefix, value) ==
    LET v == Validate(d, value)
    IN  IF v.kind # "ok" THEN v
        ELSE LET token == IF d.map_values THEN MapValue(d.map, value) ELSE value
             IN Written(<<prefix \o d.set \o " " \o Format(d, token)>>,
                        <<<<prefix \o d.set \o "?", <<Stored(d, token)>>>>>>)

\* fget: query, then map a single value back to its key.
ControlGet(reg, d, prefix) ==
    LET query == prefix \o d.get
        vals == Reply(reg, query)
    IN  IF Len(vals) = 1 THEN
            IF ~d.map_values THEN Ok(vals[1], <<query>>)
            ELSE IF \E p \in d.map : p[2] = vals[1]
                 THEN Ok((CHOOSE p \in d.map : p[2] = vals[1])[1], <<query>>)
                 ELSE Raise("KeyError", <<query>>)
        ELSE Ok(vals, <<query>>)

\* The instrument after the writes of eff.
RECURSIVE Apply(_, _)
Apply(reg, eff) ==
    IF eff = <<>> THEN reg
    ELSE Apply([reg EXCEPT ![Head(eff)[1]] = Head(eff)[2]], Tail(eff))


(***************************************************************************)
(* Waveform preamble.                                                      *)
(***************************************************************************)
\* list.index(token): the first position of the token, 0 when absent
\* (positions count from 1 here).
RECURSIVE Index(_, _)
Index(vals, token) ==
    IF vals = <<>> THEN 0
    ELSE IF Head(vals) = token THEN 1
    ELSE LET i == Index(Tail(vals), token) IN IF i = 0 THEN 0 ELSE i + 1

\* The value at the place the marker has in the usual reply.
FixedPlaceMutant(vals, marker) ==
    Ok(vals[CASE marker = "SP" -> 2 [] marker = "NP" -> 4 [] OTHER -> 6], <<>>)

\* vals[vals.index(marker) + 1]
AfterMarker(vals, marker) ==
    LET i == Index(vals, Name(marker))
    IN  IF i = 0 THEN Raise("ValueError", <<>>)
        ELSE IF i + 1 > Len(vals) THEN Raise("IndexError", <<>>)
        ELSE Ok(vals[i + 1], <<>>)

\* str.lower() of the tokens get_process sees.
Lower(s) == IF s = "AVERAGE" THEN "average" ELSE s

\* get_process of acquisition_type, applied to a reply of several values
get_process(v) ==
    IF Len(v) = 2 /\ v[1] = "AVERAGE" THEN <<Lower(v[1]), v[2]>> ELSE v

\* Reading acquisition_type: a str (the mapped key), or a list.
acquisition_type_get(reg) ==
    LET r == ControlGet(reg, acquisition_type, "")
    IN  IF r.kind # "ok" THEN r
        ELSE IF Len(Reply(reg, "ACQW?")) = 1 THEN Ok([str |-> r.val[1]], r.sent)
        ELSE Ok([list |-> get_process(r.val[1])], r.sent)

\* s[0] of the strings acquisition_type returns
FirstChar(s) ==
    CASE s = "normal" -> "n"
      [] s = "peak" -> "p"
      [] s = "average" -> "a"
      [] s = "highres" -> "h"

\* preamble["type"][0]
PrimaryTag(type) ==
    IF "list" \in DOMAIN type THEN type.list[1] ELSE FirstChar(type.str)

WholeTypeMutant(type) == "str" \in DOMAIN type /\ type.str = "average"

AlwaysReadAverageMutant(type) == TRUE

\* preamble["type"][0] == "average"
IsAverage(type) == PrimaryTag(type) = "average"

SkipValidationMutant(source) == Ok(source, <<>>)

\* strict_discrete_set(self.waveform_source, ["C1", "C2", "C3", "C4", "MATH"])
ValidateSource(source) == strict_discrete_set(source, WaveformSources)

\* ch(source): the channel the source names.
ch(source) ==
    IF IsStr(source) THEN sanitize_source(source)
    ELSE IF source \in {"#1", "#2", "#3", "#4"}
         THEN Ok(CASE source = "#1" -> "C1" [] source = "#2" -> "C2"
                   [] source = "#3" -> "C3" [] OTHER -> "C4", <<>>)
         ELSE Raise("ValueError", <<>>)

\* A property of ch(source).
ChannelGet(reg, source, d) ==
    LET c == ch(source)
    IN  IF c.kind # "ok" THEN c
        ELSE IF c.val[1] = "MATH" THEN Raise("AttributeError", <<>>)
        ELSE ControlGet(reg, d, c.val[1] \o ":")

math_vdiv(reg) == Measurement(reg, "MTVD?")

math_vpos(reg) == Measurement(reg, "MTVP?")

\* The first failure among the calls, made in this order, or 0.
RECURSIVE FirstFailure(_)
FirstFailure(rs) ==
    IF rs = <<>> THEN 0
    ELSE IF Head(rs).kind # "ok" THEN 1
    ELSE LET i == FirstFailure(Tail(rs)) IN IF i = 0 THEN 0 ELSE i + 1

RECURSIVE AllSent(_)
AllSent(rs) == IF rs = <<>> THEN <<>> ELSE Head(rs).sent \o AllSent(Tail(rs))

\* The outcome of calls made one after the other: the first exception with
\* all that was sent until then, or the values.
Sequenced(rs) ==
    LET i == FirstFailure(rs)
    IN  IF i = 0 THEN Ok([k \in 1..Len(rs) |-> rs[k].val[1]], AllSent(rs))
        ELSE Raise(rs[i].kind, AllSent(SubSeq(rs, 1, i)))

YaxisOfFirstChannelMutant(reg, src) ==
    IF src[4] = "MATH"
    THEN Sequenced(<<math_vdiv(reg), math_vpos(reg), Ok(None, <<>>)>>)
    ELSE LET u == ChannelGet(reg, "C1", unit)
         IN Sequenced(<<ChannelGet(reg, "C1", scale),
                        ChannelGet(reg, "C1", offset),
                        IF u.kind = "ok" THEN Ok(Some(u.val[1]), u.sent) ELSE u>>)

\* _fill_yaxis_preamble: ydiv, yoffset, unit.  src holds the successive
\* readings of self.waveform_source.
_fill_yaxis_preamble(reg, src) ==
    IF src[4] = "MATH"
    THEN Sequenced(<<math_vdiv(reg), math_vpos(reg), Ok(None, <<>>)>>)
    ELSE LET u == ChannelGet(reg, src[7], unit)
         IN Sequenced(<<ChannelGet(reg, src[5], scale),
                        ChannelGet(reg, src[6], offset),
                        IF u.kind = "ok" THEN Ok(Some(u.val[1]), u.sent) ELSE u>>)

(***************************************************************************)
(* waveform_preamble.  The calls are made in the order of the code; the    *)
(* average count is read only in average mode.                             *)
(***************************************************************************)
waveform_preamble(reg, src) ==
    LET vals == Measurement(reg, "WFSU?")
        type == acquisition_type_get(reg)
        first == Sequenced(<<
            vals,
            AfterMarker(vals.val[1], "SP"),
            AfterMarker(vals.val[1], "NP"),
            AfterMarker(vals.val[1], "FP"),
            Ok(src[1], <<>>),
            type,
            Measurement(reg, "SARA?"),
            ControlGet(reg, acquisition_status, ""),
            ControlGet(reg, memory_size, ""),
            ControlGet(reg, timebase_scale, ""),
            ControlGet(reg, timebase_offset, "") >>)
    IN  IF first.kind # "ok" THEN first
        ELSE
        LET f == first.val[1]
            average == IF IsAverage(f[6])
                       THEN LET a == ControlGet(reg, acquisition_average, "")
                            IN IF a.kind = "ok" THEN Ok(Some(a.val[1]), a.sent) ELSE a
                       ELSE Ok(None, <<>>)
            rest == Sequenced(<<
                Ok(0, first.sent),
                average,
                ValidateSource(src[2]),
                acquisition_sample_size(reg, src[3], 1),
                _fill_yaxis_preamble(reg, src) >>)
        IN  IF rest.kind # "ok" THEN rest
            ELSE
            LET g == rest.val[1]
            IN Ok([sparsing |-> f[2], requested_points |-> f[3], first_point |-> f[4],
                   transmitted_points |-> None, source |-> f[5], type |-> f[6],
                   sampling_rate |-> f[7], grid_number |-> 14, status |-> f[8],
                   memory_size |-> f[9], xdiv |-> f[10], xoffset |-> f[11],
                   average |-> g[2], sampled_points |-> g[4],
                   ydiv |-> g[5][1], yoffset |-> g[5][2], unit |-> g[5][3]],
                  rest.sent)

(***************************************************************************)
(* The instrument as the driver finds it.                                  *)
(***************************************************************************)
Registers(sizes, definition) ==
    [q \in {"SANU? C1", "SANU? C2", "SANU? C3", "SANU? C4"} |-> <<sizes[q]>>]
        @@ [q \in {"DEF?"} |-> <<"EQN", definition>>]
        @@ [q \in {"WFSU SP", "WFSU NP", "WFSU FP", "WFSU SN"} |-> <<0>>]
        @@ [q \in {"WFSU layout"} |-> <<"SP", "NP", "FP">>]
        @@ [q \in {"ACQW?"} |-> <<"SAMPLING">>]
        @@ [q \in {"AVGA?"} |-> <<16>>]
        @@ [q \in {"SARA?"} |-> <<500>>]
        @@ [q \in {"SAST?"} |-> <<"Stop">>]
        @@ [q \in {"MSIZ?"} |-> <<"7K">>]
        @@ [q \in {"TDIV?"} |-> <<1000>>]
        @@ [q \in {"TRDL?", "HPOS?", "MTVP?"} |-> <<0>>]
        @@ [q \in {"HMAG?"} |-> <<1000>>]
        @@ [q \in {"MTVD?"} |-> <<50>>]
        @@ [q \in {"C1:VDIV?", "C2:VDIV?", "C3:VDIV?", "C4:VDIV?"} |-> <<1>>]
        @@ [q \in {"C1:OFST?", "C2:OFST?", "C3:OFST?", "C4:OFST?"} |-> <<0>>]
        @@ [q \in {"C1:UNIT?", "C2:UNIT?", "C3:UNIT?", "C4:UNIT?"} |-> <<"V">>]
        @@ [q \in {"C1:BWL?", "C2:BWL?", "C3:BWL?", "C4:BWL?"} |-> <<"OFF">>]
        @@ [q \in {"C1:INVS?", "C2:INVS?", "C3:INVS?", "C4:INVS?"} |-> <<"OFF">>]
        @@ [q \in {"C1:TRA?", "C2:TRA?", "C3:TRA?", "C4:TRA?"} |-> <<"ON">>]
        @@ [q \in {"C1:CPL?", "C2:CPL?", "C3:CPL?", "C4:CPL?"} |-> <<"D1M">>]
        @@ [q \in {"C1:SKEW?", "C2:SKEW?", "C3:SKEW?", "C4:SKEW?"} |-> <<0>>]

SanuQueries == {"SANU? C1", "SANU? C2", "SANU? C3", "SANU? C4"}

DefaultRegisters ==
    Registers([q \in SanuQueries |-> 1], Quote(Chars("1"), "+", Chars("3")))

\* What can be changed at the front panel, or changes with the signal.
PanelDefs ==
    { Quote(Chars("2"), "-", Chars("4")),
      Quote(<<"M", "A", "T", "H">>, "+", Chars("1")),
      Quote(Chars("5"), "+", Chars("1")),
      Quote(Chars("3"), "-", Chars("5")),
      <<"'", "F", "F", "T", "(", "C", "1", ")", "'">> }

PanelSettings ==
    {<<q, <<n>>>> : q \in SanuQueries, n \in Sizes}
        \cup {<<"DEF?", <<"EQN", d>>>> : d \in PanelDefs}
        \cup {<<"ACQW?", <<p[2]>>>> : p \in ACQUISITION_TYPES}
        \cup {<<"AVGA?", <<4>>>>, <<"SAST?", <<"Ready">>>>, <<"MSIZ?", <<"14M">>>>,
              <<"TDIV?", <<2000>>>>, <<"MTVD?", <<20>>>>, <<"MTVP?", <<3>>>>,
              <<"WFSU SP", <<1>>>>, <<"WFSU NP", <<2>>>>, <<"WFSU FP", <<3>>>>,
              <<"WFSU SN", <<1>>>>}
        \cup {<<"WFSU layout", l>> : l \in WfsuLayouts}
        \cup {<<c \o ":VDIV?", <<5>>>> : c \in Channels}
        \cup {<<c \o ":OFST?", <<-2>>>> : c \in Channels}
        \cup {<<c \o ":UNIT?", <<"A">>>> : c \in Channels}

(***************************************************************************)
(* Steps.                                                                  *)
(***************************************************************************)
NoOp == [op |-> "none", args |-> <<>>, res |-> Raise("none", <<>>)]

SourceArgs == WaveformSources \cup {"C5", "c2", "math", "#1", "#2", "#3", "#4", "#5"}

\* The sources tried while the instrument's settings change.
FewSources == {"C1", "C4", "MATH", "C5", "c2", "#1", "#5"}

\* Every reading of self.waveform_source within one call gives the same.
Steady(source) == [k \in 1..7 |-> source]

PanelChange(setting) ==
    /\ nchg < MaxChanges
    /\ inst[setting[1]] # setting[2]
    /\ inst' = [inst EXCEPT ![setting[1]] = setting[2]]
    /\ nchg' = nchg + 1
    /\ last' = NoOp
    /\ UNCHANGED <<waveform_source, clock, last_write, gap>>

\* scope.waveform_source = source
SetWaveformSource(source) ==
    /\ nchg < MaxChanges
    /\ source # waveform_source
    /\ waveform_source' = source
    /\ nchg' = nchg + 1
    /\ last' = NoOp
    /\ UNCHANGED <<inst, clock, last_write, gap>>

AcquisitionSampleSize(source) ==
    /\ last' = [op |-> "acquisition_sample_size", args |-> <<source>>,
                res |-> acquisition_sample_size(inst, source, 1)]
    /\ UNCHANGED <<inst, waveform_source, nchg, clock, last_write, gap>>

WaveformPreamble ==
    /\ last' = [op |-> "waveform_preamble", args |-> <<waveform_source>>,
                res |-> waveform_preamble(inst, Steady(waveform_source))]
    /\ UNCHANGED <<inst, waveform_source, nchg, clock, last_write, gap>>

Quiet ==
    /\ last = NoOp
    /\ nchg = 0
    /\ clock = 0
    /\ last_write = None
    /\ gap = None

(***************************************************************************)
(* The preamble assembler on an instrument whose settings change.          *)
(***************************************************************************)
Init ==
    /\ inst = DefaultRegisters
    /\ waveform_source = "C1"
    /\ Quiet

Next ==
    \/ \E setting \in PanelSettings : PanelChange(setting)
    \/ \E source \in FewSources \cup {"C2", "C3"} : SetWaveformSource(source)
    \/ \E source \in FewSources : AcquisitionSampleSize(source)
    \/ WaveformPreamble

Spec == Init /\ [][Next]_vars

(***************************************************************************)
(* Acquisition alone: the instrument holds any sample sizes and any math   *)
(* definition, and any source is selected.                                 *)
(***************************************************************************)
InitAcq ==
    /\ \E sizes \in [SanuQueries -> Sizes], d \in MathDefs :
            inst = Registers(sizes, d)
    /\ waveform_source = "MATH"
    /\ Quiet

NextAcq ==
    \/ \E source \in SourceArgs : AcquisitionSampleSize(source)
    \/ WaveformPreamble

SpecAcq == InitAcq /\ [][NextAcq]_vars

(***************************************************************************)
(* The properties of a channel and of the scope, by name.                  *)
(***************************************************************************)
ChannelProperty(name) ==
    CASE name = "bwlimit" -> bwlimit
      [] name = "invert" -> invert
      [] name = "skew_factor" -> skew_factor
      [] name = "unit" -> unit
      [] name = "coupling" -> coupling
      [] name = "offset" -> offset
      [] name = "scale" -> scale
      [] name = "display" -> display

ScopeProperty(name) ==
    CASE name = "timebase_hor_magnify" -> timebase_hor_magnify
      [] name = "timebase_hor_position" -> timebase_hor_position
      [] name = "timebase_scale" -> timebase_scale
      [] name = "timebase_offset" -> timebase_offset
      [] name = "acquisition_average" -> acquisition_average
      [] name = "memory_size" -> memory_size
      [] name = "acquisition_type" -> acquisition_type

ChannelNames ==
    {"bwlimit", "invert", "skew_factor", "unit", "coupling", "offset", "scale", "display"}

ScopeNames ==
    {"timebase_hor_magnify", "timebase_hor_position", "timebase_scale",
     "timebase_offset", "acquisition_type", "acquisition_average", "memory_size"}

\* The values a caller assigns, accepted or not.
ChannelValues ==
    { <<"bwlimit", "True">>, <<"bwlimit", "False">>, <<"bwlimit", "abcd">>,
      <<"invert", "True">>, <<"invert", "False">>, <<"invert", "ON">>,
      <<"skew_factor", -100>>, <<"skew_factor", 101>>,
      <<"unit", "A">>, <<"unit", "V">>, <<"unit", "W">>,
      <<"coupling", "ac 1M">>, <<"coupling", "ground">>, <<"coupling", "GND">>,
      <<"offset", 3>>, <<"scale", 5>>,
      <<"display", "False">>, <<"display", "True">>, <<"display", "OFF">> }

ScopeValues ==
    { <<"timebase_hor_magnify", 1>>, <<"timebase_hor_magnify", 0>>,
      <<"timebase_hor_magnify", 20040000>>,
      <<"acquisition_type", "average">>, <<"acquisition_type", "highres">>,
      <<"acquisition_type", "AVERAGE">>,
      <<"acquisition_average", 4>>, <<"acquisition_average", 1024>>,
      <<"acquisition_average", 8>>,
      <<"memory_size", 14000>>, <<"memory_size", 10000>> }

\* The outcome of assignments made one after the other: all of them, or
\* those before the first that raised.
Performed(rs) ==
    LET i == FirstFailure(rs)
        done == IF i = 0 THEN rs ELSE SubSeq(rs, 1, i - 1)
        Eff[k \in 0..Len(done)] == IF k = 0 THEN <<>> ELSE Eff[k - 1] \o done[k].eff
    IN [kind |-> IF i = 0 THEN "ok" ELSE rs[i].kind, val |-> None,
        sent |-> AllSent(done), eff |-> Eff[Len(done)]]

Nothing == Written(<<>>, <<>>)

SwappedSetupMutant(scale_, offset_, hor_magnify, hor_position) ==
    Performed(<<
        IF scale_ # None THEN ControlSet(timebase_offset, "", scale_[1]) ELSE Nothing,
        IF offset_ # None THEN ControlSet(timebase_scale, "", offset_[1]) ELSE Nothing,
        IF hor_magnify # None THEN ControlSet(timebase_hor_magnify, "", hor_magnify[1])
        ELSE Nothing,
        IF hor_position # None THEN ControlSet(timebase_hor_position, "", hor_position[1])
        ELSE Nothing >>)

\* timebase_setup(scale, offset, hor_magnify, hor_position)
timebase_setup(scale_, offset_, hor_magnify, hor_position) ==
    Performed(<<
        IF scale_ # None THEN ControlSet(timebase_scale, "", scale_[1]) ELSE Nothing,
        IF offset_ # None THEN ControlSet(timebase_offset, "", offset_[1]) ELSE Nothing,
        IF hor_magnify # None THEN ControlSet(timebase_hor_magnify, "", hor_magnify[1])
        ELSE Nothing,
        IF hor_position # None THEN ControlSet(timebase_hor_position, "", hor_position[1])
        ELSE Nothing >>)

(***************************************************************************)
(* Property accesses as steps.                                             *)
(***************************************************************************)
\* scope.ch_<n>.<name> = value
SetChannel(c, name, value) ==
    LET res == ControlSet(ChannelProperty(name), c \o ":", value)
    IN /\ nchg < MaxCalls
       /\ nchg' = nchg + 1
       /\ last' = [op |-> "set", args |-> <<c \o ":", name, value>>, res |-> res]
       /\ inst' = Apply(inst, res.eff)
       /\ UNCHANGED <<waveform_source, clock, last_write, gap>>

\* scope.ch_<n>.<name>
GetChannel(c, name) ==
    LET res == ControlGet(inst, ChannelProperty(name), c \o ":")
    IN /\ nchg < MaxCalls
       /\ nchg' = nchg + 1
       /\ last' = [op |-> "get", args |-> <<c \o ":", name>>, res |-> res]
       /\ UNCHANGED <<inst, waveform_source, clock, last_write, gap>>

\* scope.<name> = value
SetScope(name, value) ==
    LET res == ControlSet(ScopeProperty(name), "", value)
    IN /\ nchg < MaxCalls
       /\ nchg' = nchg + 1
       /\ last' = [op |-> "set", args |-> <<"", name, value>>, res |-> res]
       /\ inst' = Apply(inst, res.eff)
       /\ UNCHANGED <<waveform_source, clock, last_write, gap>>

\* scope.<name>
GetScope(name) ==
    LET res == IF name = "acquisition_type" THEN acquisition_type_get(inst)
               ELSE ControlGet(inst, ScopeProperty(name), "")
    IN /\ nchg < MaxCalls
       /\ nchg' = nchg + 1
       /\ last' = [op |-> "get", args |-> <<"", name>>, res |-> res]
       /\ UNCHANGED <<inst, waveform_source, clock, last_write, gap>>

TimebaseSetup(scale_, offset_, hor_magnify, hor_position) ==
    LET res == timebase_setup(scale_, offset_, hor_magnify, hor_position)
    IN /\ nchg < MaxCalls
       /\ nchg' = nchg + 1
       /\ last' = [op |-> "timebase_setup",
                   args |-> <<scale_, offset_, hor_magnify, hor_position>>, res |-> res]
       /\ inst' = Apply(inst, res.eff)
       /\ UNCHANGED <<waveform_source, clock, last_write, gap>>

NextControl ==
    \/ \E c \in Channels, nv \in ChannelValues : SetChannel(c, nv[1], nv[2])
    \/ \E c \in Channels, name \in ChannelNames : GetChannel(c, name)
    \/ \E nv \in ScopeValues : SetScope(nv[1], nv[2])
    \/ \E name \in ScopeNames : GetScope(name)
    \/ \E scale_ \in {None, Some(2000)}, offset_ \in {None, Some(-500)},
          hor_magnify \in {None, Some(12345), Some(0)},
          hor_position \in {None, Some(7)} :
            TimebaseSetup(scale_, offset_, hor_magnify, hor_position)

SpecControl == Init /\ [][NextControl]_vars

(***************************************************************************)
(* Rate limiting.  Every command of every accessor of the instrument goes  *)
(* through write, which keeps commands WRITE_INTERVAL_S apart.             *)
(***************************************************************************)
WRITE_INTERVAL_S == 10

Commands == {"TDIV?", "C1:BWL ON", "C2:BWL?"}

SwappedDeficitMutant(now, previous) ==
    IF previous # None /\ now - previous[1] < WRITE_INTERVAL_S
    THEN (now - previous[1]) - WRITE_INTERVAL_S
    ELSE 0

\* How long write sleeps before it transmits at time now.
Deficit(now, previous) ==
    IF previous # None /\ now - previous[1] < WRITE_INTERVAL_S
    THEN WRITE_INTERVAL_S - (now - previous[1])
    ELSE 0

\* Time passes between two commands.
Elapse ==
    /\ clock < MaxClock
    /\ clock' = clock + 1
    /\ UNCHANGED <<inst, waveform_source, last, nchg, last_write, gap>>

\* write(command): sleep for the deficit, then transmit.  A sleep lasts at
\* least as long as asked.
Write(command) ==
    /\ clock < MaxClock
    /\ \E over \in 0..MaxOversleep :
        LET wait == Deficit(clock, last_write)
            at == clock + wait + (IF wait # 0 THEN over ELSE 0)
        IN /\ gap' = [issued |-> clock, wait |-> wait, at |-> at,
                      previous |-> IF gap = None THEN None ELSE Some(gap.at)]
           /\ last_write' = Some(at)
           /\ clock' = at
    /\ last' = [op |-> "write", args |-> <<command>>, res |-> Written(<<command>>, <<>>)]
    /\ UNCHANGED <<inst, waveform_source, nchg>>

NextRate ==
    \/ Elapse
    \/ \E command \in Commands : Write(command)

SpecRate == Init /\ [][NextRate]_vars

(***************************************************************************)
(* The preamble requested while the waveform source is assigned.  The      *)
(* driver reads self.waveform_source seven times in one request; an        *)
(* assignment made by another thread falls before one of the readings, or  *)
(* after the last.                                                         *)
(***************************************************************************)
RaceSources == {"C1", "C3", "MATH", "C5"}

RaceDefs == {Quote(Chars("1"), "+", Chars("3")), Quote(Chars("4"), "-", Chars("2"))}

\* An instrument whose channels and math channel differ in every reading.
RaceRegisters(sizes, definition) ==
    LET r == Registers(sizes, definition)
    IN [q \in DOMAIN r |->
            CASE q = "C3:VDIV?" -> <<5>>
              [] q = "C3:OFST?" -> <<-2>>
              [] q = "C3:UNIT?" -> <<"A">>
              [] q = "MTVD?" -> <<20>>
              [] q = "MTVP?" -> <<3>>
              [] OTHER -> r[q]]

\* The readings when source is assigned just before reading number at
\* (at = 8: after the last reading).
ReadingsAround(before, source, at) ==
    [k \in 1..7 |-> IF k < at THEN before ELSE source]

WaveformPreambleDuringAssignment(source, at) ==
    LET src == ReadingsAround(waveform_source, source, at)
    IN /\ last' = [op |-> "waveform_preamble", args |-> src,
                   res |-> waveform_preamble(inst, src)]
       /\ waveform_source' = source
       /\ UNCHANGED <<inst, nchg, clock, last_write, gap>>

InitRace ==
    /\ \E sizes \in [SanuQueries -> Sizes], d \in RaceDefs :
            inst = RaceRegisters(sizes, d)
    /\ waveform_source = "C1"
    /\ Quiet

NextRace ==
    \E source \in RaceSources, at \in 1..8 :
        WaveformPreambleDuringAssignment(source, at)

SpecRace == InitRace /\ [][NextRace]_vars

(***************************************************************************)
(* Properties.                                                             *)
(***************************************************************************)
Called(op) == last.op = op
Returned(op) == last.op = op /\ last.res.kind = "ok"
Preamble == last.res.val[1]
SizeOf(query) == inst[query][1]

C2_UnknownSourceNoPreamble ==
    Called("waveform_preamble") /\ last.args[1] \notin WaveformSources =>
        last.res.kind = "ValueError" /\ last.res.val = None

C2_Witness ==
    /\ Called("waveform_preamble")
    /\ last.args[1] = "C5"
    /\ last.res.kind = "ValueError"

\* C3, as claimed: a ValueError for an unresolvable source is raised before
\* the operation has transmitted any command.
C3_ErrorBeforeAnyCommand ==
    last.res.kind = "ValueError" => last.res.sent = <<>>

BeforeValidation ==
    <<"WFSU?", "ACQW?", "SARA?", "SAST?", "MSIZ?", "TDIV?", "TRDL?">>
        \o (IF inst["ACQW?"] = <<"AVERAGE">> THEN <<"AVGA?">> ELSE <<>>)

\* The queries of the driver: the registers by their query, and WFSU?.
AllQueries ==
    (DOMAIN DefaultRegisters
        \ {"WFSU SP", "WFSU NP", "WFSU FP", "WFSU SN", "WFSU layout"}) \cup {"WFSU?"}

\* C3, amended: a ValueError for an unresolvable source is raised with
\* nothing transmitted when acquisition_sample_size is given the token
\* itself; waveform_preamble raises it for an unaccepted source after its
\* queries WFSU?, ACQW?, SARA?, SAST?, MSIZ?, TDIV?, TRDL? (and AVGA? in
\* average mode) and nothing else; in every case only queries were sent.
C3_ErrorAfterQueriesOnly ==
    /\ last.res.kind = "ValueError" =>
          \A i \in 1..Len(last.res.sent) : last.res.sent[i] \in AllQueries
    /\ Called("acquisition_sample_size") /\ last.res.kind = "ValueError"
            /\ Upper(last.args[1]) # "MATH" =>
          last.res.sent = <<>>
    /\ Called("waveform_preamble") /\ last.args[1] \notin WaveformSources =>
          last.res.kind = "ValueError" /\ last.res.sent = BeforeValidation

C3_Witness ==
    /\ Called("waveform_preamble")
    /\ last.args[1] = "#5"
    /\ last.res.kind = "ValueError"
    /\ inst["ACQW?"] = <<"HIGH_RES">>
    /\ Len(last.res.sent) = 7

\* C5: in a returned preamble "average" is None unless the acquisition type
\* read for it has the primary tag "average", and then it is the reading of
\* acquisition_average; the instrument's four types are told apart so.
C5_AverageOnlyInAverageMode ==
    Returned("waveform_preamble") =>
        /\ PrimaryTag(Preamble.type) # "average" => Preamble.average = None
        /\ PrimaryTag(Preamble.type) = "average" =>
              Preamble.average = Some(inst["AVGA?"][1])
        /\ inst["ACQW?"] = <<"AVERAGE">> <=> PrimaryTag(Preamble.type) = "average"
        /\ inst["ACQW?"] = <<"AVERAGE">> <=> Preamble.average # None

C5_Witness ==
    /\ Returned("waveform_preamble")
    /\ inst["ACQW?"] = <<"AVERAGE">>
    /\ inst["AVGA?"] = <<4>>
    /\ Preamble.type = [list |-> <<"average", 4>>]
    /\ Preamble.average = Some(4)

\* C6: acquisition_sample_size gives the same for C1 and C2, and the same
\* for C3 and C4, whatever the instrument holds for each channel.
C6_SharedAdcReadsAgree ==
    /\ acquisition_sample_size(inst, "C1", 1).val = acquisition_sample_size(inst, "C2", 1).val
    /\ acquisition_sample_size(inst, "C3", 1).val = acquisition_sample_size(inst, "C4", 1).val
    /\ Called("acquisition_sample_size") /\ last.args[1] \in {"C1", "C2", "#1", "#2"} =>
          last.res.val = Some(SizeOf("SANU? C1"))
    /\ Called("acquisition_sample_size") /\ last.args[1] \in {"C3", "C4", "#3", "#4"} =>
          last.res.val = Some(SizeOf("SANU? C3"))

C6_Witness ==
    /\ SizeOf("SANU? C1") = 1
    /\ SizeOf("SANU? C2") = 2
    /\ Called("acquisition_sample_size")
    /\ last.args[1] = "C2"
    /\ last.res.val = Some(1)

\* C7: the preamble's sparsing, requested_points and first_point are the
\* values that follow SP, NP and FP in the WFSU? reply, in whatever order
\* the reply lists them, and transmitted_points is None.
C7_PointsFollowTheirMarkers ==
    Returned("waveform_preamble") =>
        /\ Preamble.sparsing = Number(inst["WFSU SP"][1])
        /\ Preamble.requested_points = Number(inst["WFSU NP"][1])
        /\ Preamble.first_point = Number(inst["WFSU FP"][1])
        /\ Preamble.transmitted_points = None

C7_Witness ==
    /\ Returned("waveform_preamble")
    /\ inst["WFSU layout"] = <<"SN", "NP", "SP", "FP">>
    /\ inst["WFSU NP"] = <<2>>
    /\ Preamble.requested_points = Number(2)
    /\ Preamble.sparsing = Number(0)

\* What the documentation of each validated property admits (times in ns).
Admitted(name, value) ==
    CASE name \in {"bwlimit", "invert"} -> value \in {"True", "False"}
      [] name = "skew_factor" -> -100 <= value /\ value <= 100
      [] name = "unit" -> value \in {"A", "V"}
      [] name = "timebase_hor_magnify" -> 1 <= value /\ value <= 20000000
      [] name = "acquisition_type" -> value \in {"normal", "peak", "average", "highres"}
      [] name = "acquisition_average" -> value \in {4, 16, 32, 64, 128, 256, 512, 1024}
      [] name = "memory_size" ->
            value \in {7000, 70000, 700000, 7000000, 14000, 140000, 1400000, 14000000}

ValidatedNames ==
    {"bwlimit", "invert", "skew_factor", "unit", "timebase_hor_magnify",
     "acquisition_type", "acquisition_average", "memory_size"}

\* C4: assigning to a validated property (bwlimit, invert, skew_factor, unit,
\* timebase_hor_magnify, acquisition_type, acquisition_average, memory_size)
\* a value outside its allowed set or range raises ValueError, transmits no
\* command and leaves the instrument as it was before the call.
C4_RejectedValueWritesNothing ==
    [][ (/\ nchg' # nchg
         /\ last'.op = "set"
         /\ last'.args[2] \in ValidatedNames
         /\ ~Admitted(last'.args[2], last'.args[3]))
        => (/\ last'.res.kind = "ValueError"
            /\ last'.res.sent = <<>>
            /\ inst' = inst) ]_vars

C4_Witness ==
    /\ nchg = 2
    /\ Called("set")
    /\ last.args = <<"", "acquisition_average", 8>>
    /\ last.res.kind = "ValueError"
    /\ inst["C2:UNIT?"] = <<"A">>

RoundTripNames == {"bwlimit", "invert", "coupling", "offset", "scale", "display"}

SetupCommand(header, arg) ==
    IF arg = None THEN <<>>
    ELSE << header \o " " \o
            (CASE arg[1] = 2000 -> "2.00E-06S"
               [] arg[1] = -500 -> "-5.00E-07S"
               [] arg[1] = 12345 -> "1.23E-05S"
               [] arg[1] = 0 -> "0.00E+00S"
               [] arg[1] = 7 -> "7.00E-09S") >>

SetupCommands(args) ==
    SetupCommand("TDIV", args[1]) \o SetupCommand("TRDL", args[2])
        \o SetupCommand("HMAG", args[3]) \o SetupCommand("HPOS", args[4])

\* C10 as the specification states it: timebase_setup transmits a write for
\* exactly the arguments that are not None, in the order scale, offset,
\* hor_magnify, hor_position.
C10_WritesExactlyTheGiven ==
    Called("timebase_setup") => last.res.sent = SetupCommands(last.args)

\* hor_magnify is the one argument with a validator: 1 ns to 20 ms.
SetupAccepted(args) == args[3] = None \/ Admitted("timebase_hor_magnify", args[3][1])

SetupQueries(args) ==
    (IF args[1] # None THEN {"TDIV?"} ELSE {})
        \cup (IF args[2] # None THEN {"TRDL?"} ELSE {})
        \cup (IF args[3] # None /\ SetupAccepted(args) THEN {"HMAG?"} ELSE {})
        \cup (IF args[4] # None /\ SetupAccepted(args) THEN {"HPOS?"} ELSE {})

\* timebase_setup as implemented: it transmits, in the order scale, offset, hor_magnify,
\* hor_position, one write for each argument that is not None, and nothing
\* when all are None, as long as hor_magnify is None or within 1 ns..20 ms;
\* with hor_magnify out of that range it transmits the writes of scale and
\* offset only (those not None) and raises ValueError.  In both cases no
\* register other than those written changes.
SetupWritesTheGivenUpToRejection ==
    [][ (nchg' # nchg /\ last'.op = "timebase_setup")
        => LET args == last'.args
           IN /\ SetupAccepted(args) =>
                    /\ last'.res.kind = "ok"
                    /\ last'.res.sent = SetupCommands(args)
              /\ ~SetupAccepted(args) =>
                    /\ last'.res.kind = "ValueError"
                    /\ last'.res.sent = SetupCommands(<<args[1], args[2], None, None>>)
              /\ \A q \in DOMAIN inst : inst'[q] # inst[q] => q \in SetupQueries(args) ]_vars

SetupWitness ==
    /\ Called("timebase_setup")
    /\ last.args = <<None, Some(-500), None, Some(7)>>
    /\ last.res.sent = <<"TRDL -5.00E-07S", "HPOS 7.00E-09S">>
    /\ inst["TRDL?"] = <<-500>>
    /\ inst["TDIV?"] = DefaultRegisters["TDIV?"]

\* C8: any two consecutive commands transmitted to the instrument, by
\* whichever accessors, are at least WRITE_INTERVAL_S (10 ms) apart: a
\* command issued sooner is held back until then, and the wait computed for
\* it is never negative.
C8_CommandsKeepTheirDistance ==
    gap # None =>
        /\ gap.wait >= 0
        /\ gap.at >= gap.issued + gap.wait
        /\ gap.previous # None => gap.at - gap.previous[1] >= WRITE_INTERVAL_S

C8_Witness ==
    /\ gap # None
    /\ gap.previous # None
    /\ gap.issued - gap.previous[1] = 3
    /\ gap.wait = 7
    /\ gap.at = gap.previous[1] + 10
    /\ last.args = <<"C2:BWL?">>

\* C11: in a returned preamble, with the source MATH "ydiv" and "yoffset"
\* are the math channel's vertical scale and position and "unit" is None;
\* with a source C1..C4 they are the scale, offset and unit of that very
\* channel.
C11_YaxisOfTheSource ==
    Returned("waveform_preamble") =>
        LET s == last.args[1]
            p == Preamble
        IN  IF s = "MATH"
            THEN /\ p.ydiv = inst["MTVD?"][1]
                 /\ p.yoffset = inst["MTVP?"][1]
                 /\ p.unit = None
            ELSE /\ s \in Channels
                 /\ p.ydiv = inst[s \o ":VDIV?"][1]
                 /\ p.yoffset = inst[s \o ":OFST?"][1]
                 /\ p.unit = Some(inst[s \o ":UNIT?"][1])

C11_Witness ==
    /\ Returned("waveform_preamble")
    /\ last.args[1] = "C4"
    /\ Preamble.ydiv = 5
    /\ Preamble.unit = Some("V")
    /\ inst["C1:VDIV?"] = <<1>>

\* The sample size the instrument holds for a source (the math definitions
\* here combine a channel of each converter).
PointsOf(s) ==
    CASE s \in {"C1", "C2"} -> SizeOf("SANU? C1")
      [] s \in {"C3", "C4"} -> SizeOf("SANU? C3")
      [] s = "MATH" -> Min(SizeOf("SANU? C1"), SizeOf("SANU? C3"))

YaxisOf(s) ==
    IF s = "MATH" THEN <<inst["MTVD?"][1], inst["MTVP?"][1], None>>
    ELSE <<inst[s \o ":VDIV?"][1], inst[s \o ":OFST?"][1], Some(inst[s \o ":UNIT?"][1])>>

\* A preamble that is all about the source s.
AllAbout(p, s) ==
    /\ s \in WaveformSources
    /\ p.source = s
    /\ p.sampled_points = PointsOf(s)
    /\ <<p.ydiv, p.yoffset, p.unit>> = YaxisOf(s)

\* C12, as claimed: a returned preamble is about one source, the one in its
\* "source" field: validated, sampled_points and ydiv, yoffset, unit all
\* belong to it, also when the selected source changes during the request.
C12_OneSourceThroughout ==
    Returned("waveform_preamble") => AllAbout(Preamble, Preamble.source)

\* C12, amended: each use reads the selected source anew: "source" is the
\* first reading, the second is validated, sampled_points is resolved for
\* the third, the fourth decides between math and channel, and ydiv, yoffset
\* and unit come from the channels of the fifth, sixth and seventh.  The
\* preamble is about one source when the readings agree.
C12_EachFieldOfItsOwnReading ==
    Returned("waveform_preamble") =>
        LET r == last.args
            p == Preamble
        IN  /\ p.source = r[1]
            /\ r[2] \in WaveformSources
            /\ p.sampled_points = PointsOf(r[3])
            /\ r[4] = "MATH" => <<p.ydiv, p.yoffset, p.unit>> = YaxisOf("MATH")
            /\ r[4] # "MATH" =>
                    /\ p.ydiv = YaxisOf(r[5])[1]
                    /\ p.yoffset = YaxisOf(r[6])[2]
                    /\ p.unit = YaxisOf(r[7])[3]
            /\ (\A k \in 1..7 : r[k] = r[1]) => AllAbout(p, p.source)

C12_Witness ==
    /\ Returned("waveform_preamble")
    /\ \A k \in 1..7 : last.args[k] = "C3"
    /\ SizeOf("SANU? C1") = 1
    /\ Preamble.sampled_points = 2
    /\ Preamble.ydiv = 5
    /\ Preamble.source = "C3"

MathOperand == <<"M", "A", "T", "H">>

\* Definitions with the math channel itself as an operand.
SelfReferring ==
    {Quote(MathOperand, "+", Chars("1")), Quote(Chars("2"), "*", MathOperand)}

\* Definitions that are not two operands joined by an operator in quotes.
Unmatched ==
    {<<"'", "F", "F", "T", "(", "C", "1", ")", "'">>, <<"C", "1", "+", "C", "2">>}

\* Definitions with an operand that is no channel.
UnknownOperand ==
    {Quote(Chars("5"), "+", Chars("1")), Quote(Chars("3"), "-", Chars("5"))}

====
